---- MODULE Spec2Model ----
(***************************************************************************)
(* Model of vaspy/iter.py: the OSZICAR parser (OsziCar.match, load, esort) *)
(* and the OUTCAR block extractor (OutCar.__iter__, OutCar.fmax).          *)
(*                                                                         *)
(* Four specifications share the variables:                                *)
(*   Spec      the generator OutCar.__iter__ driven line by line,          *)
(*   FairSpec  the same with the fairness of a consumer that goes on,      *)
(*   SpecOszi  OsziCar.load followed by a call of OsziCar.esort,           *)
(*   SpecFmax  a call of OutCar.fmax.                                      *)
(***************************************************************************)
EXTENDS Integers, Sequences, FiniteSets, TLC

\* Longest stream of lines a traversal of the OUTCAR reads.
MaxLines == 7

VARIABLES
    \* ---- OutCar.__iter__ -------------------------------------------------
    read,           \* the lines `for line in f` has delivered so far
    gen,            \* status of the generator object
    handles,        \* number of open file handles
    ion_step,       \* local ion_step
    collect_begin,  \* local collect_begin
    collecting,     \* local collecting
    coordinates,    \* local coordinates: reference to a list (0: unbound)
    forces,         \* local forces: reference to a list (0: unbound)
    heap,           \* the list objects: heap[r] is the content of list r
    yielded,        \* the records handed to the consumer, in order
    \* ---- OsziCar --------------------------------------------------------
    ofile,          \* the lines of the OSZICAR file
    attrs,          \* the attributes of the OsziCar object: name -> value
    loadState,      \* "constructing", "ok", or the error load() raised
    esortCall,      \* the last call of esort and what it returned
    \* ---- OutCar.fmax ----------------------------------------------------
    atom_forces,    \* the argument of fmax
    elemType,       \* type of its rows: "list" or "ndarray"
    fmaxResult      \* what fmax returned or raised

iterVars == <<read, gen, handles, ion_step, collect_begin, collecting,
              coordinates, forces, heap, yielded>>

osziVars == <<ofile, attrs, loadState, esortCall>>

fmaxVars == <<atom_forces, elemType, fmaxResult>>

vars == <<read, gen, handles, ion_step, collect_begin, collecting,
          coordinates, forces, heap, yielded,
          ofile, attrs, loadState, esortCall,
          atom_forces, elemType, fmaxResult>>

-----------------------------------------------------------------------------
(* Lines of text, as the sequence of their whitespace-separated tokens.    *)

Num(v) == [w |-> "num", v |-> v]
Word(s) == [w |-> s, v |-> 0]

HeaderLine == <<Word("POSITION"), Word("TOTAL-FORCE"), Word("(eV/Angst)")>>
SepLine == <<Word("------")>>
Data1 == <<Num(1), Num(2), Num(3), Num(4), Num(5), Num(6)>>
Data2 == <<Num(7), Num(8), Num(9), Num(10), Num(11), Num(12)>>
ShortLine == <<Num(1), Num(2), Num(3), Num(4), Num(5)>>

\* The lines a stream is made of.  Outside a block a data line, a short line
\* or a separator is a line of other text; inside one a header line is a line
\* with tokens that are no numbers.
Lines == {HeaderLine, SepLine, Data1, Data2, ShortLine}

\* force_regex.match(line)
force_regex_match(line) ==
    /\ Len(line) = 3
    /\ line[1].w = "POSITION"
    /\ line[2].w = "TOTAL-FORCE"
    /\ line[3].w = "(eV/Angst)"

\* "-"*6 in line
HasDashes(line) == \E i \in 1..Len(line) : line[i].w = "------"

\* vaspy.functions.line2list: float() of every token, ValueError on a token
\* that is no number.
line2list(line) ==
    IF \A i \in 1..Len(line) : line[i].w = "num"
    THEN [ok |-> TRUE, list |-> [i \in 1..Len(line) |-> line[i].v]]
    ELSE [ok |-> FALSE, list |-> <<>>]

\* x, y, z, fx, fy, fz = ...: the unpacking needs exactly six values.
NumTargets == 6
Unpacks(list) == Len(list) = NumTargets

\* ion_step += 1
IncStep(s) == s + 1

\* The two lists made once and used again for every block.
NewListReuse(h) == IF Len(h) < 2 THEN Len(h) + 1 ELSE (Len(h) % 2) + 1

\* coordinates = [] / forces = []: a new list object.
NewList(h) == Len(h) + 1

\* The file opened without a with block: leaving the body closes nothing.
WithExitLeak(n) == n

\* The open file is closed when the with block is left.
WithExit(n) == n - 1

-----------------------------------------------------------------------------
(* OsziCar: the lines of an OSZICAR file.  A line is what split_regex and  *)
(* eq_regex see in it: the leading digits (step, -1 when there are none)   *)
(* and the name = number groups that follow them, names as written.        *)

Eq(name, number) == [name |-> name, number |-> number]
OsziLine(step, eqs) == [step |-> step, eqs |-> eqs]

NoiseLine == OsziLine(-1, <<>>)
StepOnlyLine == OsziLine(4, <<>>)
LineA == OsziLine(1, <<Eq("E0", 5), Eq("d E", 1)>>)
LineB == OsziLine(2, <<Eq("E0", 3), Eq("dE", 2)>>)
LineC == OsziLine(3, <<Eq("E0", 5), Eq("dE", 0)>>)
LineOther == OsziLine(2, <<Eq("F", 1)>>)
LineRepeat == OsziLine(1, <<Eq("E0", 1), Eq("E0", 2)>>)
LineStep == OsziLine(1, <<Eq("step", 7)>>)
LineVars == OsziLine(1, <<Eq("vars", 1)>>)
LineContent == OsziLine(1, <<Eq("content", 1)>>)
LineLoad == OsziLine(1, <<Eq("load", 1)>>)

OsziLines == {NoiseLine, StepOnlyLine, LineA, LineB, LineC, LineOther,
              LineRepeat, LineStep, LineVars, LineContent, LineLoad}

\* Longest OSZICAR file.
MaxOsziLines == 3

\* name.replace(' ', '') on the names the lines use.
RemoveSpaces(name) == IF name = "d E" THEN "dE" ELSE name

\* OsziCar.match: None (here << >>) unless the line is digits followed by one
\* or more name = number groups; else ('step', step) and the groups, the names
\* without spaces.
match(line) ==
    IF line.step >= 0 /\ Len(line.eqs) >= 1
    THEN <<Eq("step", line.step)>> \o
         [i \in 1..Len(line.eqs) |->
            Eq(RemoveSpaces(line.eqs[i].name), line.eqs[i].number)]
    ELSE <<>>

\* Values of attributes: t is the type, v the content.
Val(t, v) == [t |-> t, v |-> v]

\* What the object has when __init__ calls load(): the methods of the class,
\* the accessor of the base class and the two compiled patterns.  There is no
\* attribute vars yet: load() sets it at the first matched line.
ObjectMembers ==
    [n \in {"match", "load", "esort", "plot", "filename"} |-> Val("method", <<>>)]
    @@ [n \in {"eq_regex", "split_regex"} |-> Val("regex", <<>>)]

\* hasattr(self, name)
hasattr(a, name) == name \in DOMAIN a

\* setattr(self, name, value)
setattr(a, name, value) == (name :> value) @@ a

\* self.vars, numbers = list(zip(*eq_tuples)): the names, as a tuple.
NamesOf(eq_tuples) ==
    Val("tuple", [i \in 1..Len(eq_tuples) |-> eq_tuples[i].name])

\* getattr(self, name).append(number) works on a list only.
CanAppend(value) == value.t = "list"

\* The loop over the (name, number) pairs of one matched line, from pair i.
RECURSIVE StorePairs(_, _, _)
StorePairs(a, eq_tuples, i) ==
    IF i > Len(eq_tuples) THEN [attrs |-> a, err |-> "none"]
    ELSE LET name == eq_tuples[i].name
             number == eq_tuples[i].number
         IN IF ~hasattr(a, name)
            THEN StorePairs(setattr(a, name, Val("list", <<number>>)),
                            eq_tuples, i + 1)
            ELSE IF CanAppend(a[name])
            THEN StorePairs(setattr(a, name,
                                    Val("list", Append(a[name].v, number))),
                            eq_tuples, i + 1)
            ELSE [attrs |-> a, err |-> "AttributeError"]

\* The loop of load() over the lines of the file, from line i; content is the
\* matched lines so far.
RECURSIVE ReadLines(_, _, _, _)
ReadLines(a, content, lines, i) ==
    IF i > Len(lines) THEN [attrs |-> a, content |-> content, err |-> "none"]
    ELSE LET eq_tuples == match(lines[i])
         IN IF eq_tuples = <<>>
            THEN ReadLines(a, content, lines, i + 1)
            ELSE LET a1 == IF ~hasattr(a, "vars")
                           THEN setattr(a, "vars", NamesOf(eq_tuples))
                           ELSE a
                     r == StorePairs(a1, eq_tuples, 1)
                 IN IF r.err /= "none"
                    THEN [attrs |-> r.attrs, content |-> content, err |-> r.err]
                    ELSE ReadLines(r.attrs, Append(content, lines[i]),
                                   lines, i + 1)

\* np.array(data)
nparray(value) ==
    IF value.t \in {"list", "array"} THEN Val("array", value.v)
    ELSE IF value.t = "str" THEN Val("strarray", value.v)
    ELSE Val("objarray", <<>>)

\* for var in self.vars: setattr(self, var, np.array(getattr(self, var)))
RECURSIVE ToArrays(_, _, _)
ToArrays(a, names, i) ==
    IF i > Len(names) THEN a
    ELSE ToArrays(setattr(a, names[i], nparray(a[names[i]])), names, i + 1)

\* OsziCar.load on an object with attributes a.
load(a, lines) ==
    LET r == ReadLines(a, <<>>, lines, 1)
    IN IF r.err /= "none" THEN [attrs |-> r.attrs, err |-> r.err]
       ELSE LET a1 == setattr(r.attrs, "content", Val("str", r.content))
            IN IF ~hasattr(a1, "vars")
               THEN [attrs |-> a1, err |-> "AttributeError"]
               ELSE [attrs |-> ToArrays(a1, a1["vars"].v, 1), err |-> "none"]

-----------------------------------------------------------------------------
(* OsziCar.esort                                                            *)

Min(a, b) == IF a <= b THEN a ELSE b
Max(a, b) == IF a >= b THEN a ELSE b

\* list(zip(x, y)): pairs up to the end of the shorter one.
zip(x, y) == [i \in 1..Min(Len(x), Len(y)) |-> <<x[i], y[i]>>]

\* Order of np.sort(..., order='var') on records (var, step): by var, ties by
\* the remaining field.
PairLeq(p, q) == p[1] < q[1] \/ (p[1] = q[1] /\ p[2] <= q[2])

\* p put at its place in the sorted sequence s.
RECURSIVE Insert(_, _)
Insert(p, s) ==
    IF s = <<>> THEN <<p>>
    ELSE IF PairLeq(p, Head(s)) THEN <<p>> \o s
    ELSE <<Head(s)>> \o Insert(p, Tail(s))

\* np.sort(zipped, order='var')
RECURSIVE npsort(_)
npsort(s) == IF s = <<>> THEN <<>> ELSE Insert(Head(s), npsort(Tail(s)))

\* A slice bound of Python: negative ones count from the end, all are clipped.
Bound(k, len) == IF k < 0 THEN Max(len + k, 0) ELSE Min(k, len)

\* srted[:n]
SliceTo(s, n) == SubSeq(s, 1, Bound(n, Len(s)))

\* srted[n:], the sign of n forgotten.
SliceFromDrop(s, n) == SubSeq(s, Bound(n, Len(s)) + 1, Len(s))

\* srted[-n:]
SliceFrom(s, n) == SubSeq(s, Bound(0 - n, Len(s)) + 1, Len(s))

\* OsziCar.esort(var, n, reverse) on an object with attributes a.
esort(a, var, n, reverse) ==
    IF ~hasattr(a, var) \/ ~hasattr(a, "step")
    THEN [err |-> "AttributeError", result |-> <<>>]
    ELSE IF a[var].t /= "array" \/ a["step"].t /= "array"
    THEN [err |-> "TypeError", result |-> <<>>]
    ELSE LET srted == npsort(zip(a[var].v, a["step"].v))
         IN [err |-> "none",
             result |-> IF reverse THEN SliceFrom(srted, n)
                                   ELSE SliceTo(srted, n)]

NoCall == [called |-> FALSE, var |-> "", n |-> 0, reverse |-> FALSE,
           err |-> "none", result |-> <<>>]

-----------------------------------------------------------------------------
(* OutCar.fmax                                                              *)

\* Most rows of an argument of fmax.
MaxAtoms == 3

Vectors == {<<0, 0, 1>>, <<0, 0, 5>>, <<0, 0, -5>>, <<3, 4, 0>>}

\* x**2: defined on an ndarray (element by element), a TypeError on a list.
PowDefined(et) == et = "ndarray"

\* key: sum([x**2 for i in x]), the array x**2 added up once for every
\* component of x.
key(x, et) ==
    IF PowDefined(et)
    THEN [err |-> "none", k |-> [j \in 1..Len(x) |-> Len(x) * x[j] * x[j]]]
    ELSE [err |-> "TypeError", k |-> <<>>]

\* bool(k1 > k2) of max(): on arrays of more than one element a ValueError.
Comparable(k) == Len(k) <= 1

\* OutCar.fmax(atom_forces): the index (from 0) and the row.
fmax(af, et) ==
    IF Len(af) = 0 THEN [err |-> "ValueError", index |-> -1, vector |-> <<>>]
    ELSE IF key(af[1], et).err /= "none"
    THEN [err |-> key(af[1], et).err, index |-> -1, vector |-> <<>>]
    ELSE IF Len(af) = 1
    THEN [err |-> "none", index |-> 0, vector |-> af[1]]
    ELSE IF ~Comparable(key(af[2], et).k)
    THEN [err |-> "ValueError", index |-> -1, vector |-> <<>>]
    ELSE LET best == CHOOSE i \in 1..Len(af) :
                        /\ \A j \in 1..Len(af) :
                             key(af[j], et).k[1] <= key(af[i], et).k[1]
                        /\ \A j \in 1..(i - 1) :
                             key(af[j], et).k[1] < key(af[i], et).k[1]
         IN [err |-> "none", index |-> best - 1, vector |-> af[best]]

NoResult == [called |-> FALSE, err |-> "none", index |-> -1, vector |-> <<>>]

-----------------------------------------------------------------------------
(* OutCar.__iter__                                                          *)

Init ==
    /\ read = <<>>
    /\ gen = "none"
    /\ handles = 0
    /\ ion_step = 0
    /\ collect_begin = FALSE
    /\ collecting = FALSE
    /\ coordinates = 0
    /\ forces = 0
    /\ heap = <<>>
    /\ yielded = <<>>
    /\ ofile = <<>>
    /\ attrs = ObjectMembers
    /\ loadState = "constructing"
    /\ esortCall = NoCall
    /\ atom_forces = <<>>
    /\ elemType = "list"
    /\ fmaxResult = NoResult

\* iter(outcar): a new generator object, its body not started; allowed once
\* the generator before it is over.
Iter ==
    /\ gen \in {"none", "exhausted", "raised", "closed"}
    /\ gen' = "created"
    /\ read' = <<>>
    /\ ion_step' = 0
    /\ collect_begin' = FALSE
    /\ collecting' = FALSE
    /\ coordinates' = 0
    /\ forces' = 0
    /\ heap' = <<>>
    /\ yielded' = <<>>
    /\ UNCHANGED handles
    /\ UNCHANGED <<osziVars, fmaxVars>>

\* The first next(): the body runs up to the loop.
Start ==
    /\ gen = "created"
    /\ handles' = handles + 1
    /\ ion_step' = 0
    /\ collect_begin' = FALSE
    /\ collecting' = FALSE
    /\ gen' = "running"
    /\ UNCHANGED <<read, coordinates, forces, heap, yielded>>
    /\ UNCHANGED <<osziVars, fmaxVars>>

\* A further next(): the body goes on after the yield.
Resume ==
    /\ gen = "suspended"
    /\ gen' = "running"
    /\ UNCHANGED <<read, handles, ion_step, collect_begin, collecting,
                   coordinates, forces, heap, yielded>>
    /\ UNCHANGED <<osziVars, fmaxVars>>

\* The consumer stops asking for blocks after a yield.
Abandon ==
    /\ gen = "suspended"
    /\ gen' = "abandoned"
    /\ UNCHANGED <<read, handles, ion_step, collect_begin, collecting,
                   coordinates, forces, heap, yielded>>
    /\ UNCHANGED <<osziVars, fmaxVars>>

\* The abandoned generator is closed (close() or its finalizer): GeneratorExit
\* is raised at the yield and leaves the with block.
GeneratorClose ==
    /\ gen = "abandoned"
    /\ gen' = "closed"
    /\ handles' = WithExit(handles)
    /\ UNCHANGED <<read, ion_step, collect_begin, collecting,
                   coordinates, forces, heap, yielded>>
    /\ UNCHANGED <<osziVars, fmaxVars>>

\* The end of the stream with a flush of the block being collected.
ExhaustFlush ==
    /\ gen = "running"
    /\ gen' = "exhausted"
    /\ handles' = WithExit(handles)
    /\ yielded' = IF collecting
                  THEN Append(yielded, [step |-> ion_step,
                                        coordinates |-> coordinates,
                                        forces |-> forces])
                  ELSE yielded
    /\ UNCHANGED <<read, ion_step, collect_begin, collecting,
                   coordinates, forces, heap>>
    /\ UNCHANGED <<osziVars, fmaxVars>>

\* The stream is at its end: the loop and the with block are left.
Exhaust ==
    /\ gen = "running"
    /\ gen' = "exhausted"
    /\ handles' = WithExit(handles)
    /\ UNCHANGED <<read, ion_step, collect_begin, collecting,
                   coordinates, forces, heap, yielded>>
    /\ UNCHANGED <<osziVars, fmaxVars>>

\* A line read with collect_begin false.
ScanIdle ==
    /\ gen = "running" /\ Len(read) < MaxLines
    /\ ~collect_begin
    /\ \E line \in Lines :
        /\ read' = Append(read, line)
        /\ IF force_regex_match(line)
           THEN /\ collect_begin' = TRUE
                /\ ion_step' = IncStep(ion_step)
           ELSE UNCHANGED <<collect_begin, ion_step>>
    /\ UNCHANGED <<gen, handles, collecting, coordinates, forces, heap, yielded>>
    /\ UNCHANGED <<osziVars, fmaxVars>>

\* The header test made in HeaderSeen too, counting the header again.
ScanHeaderSeenCounting ==
    /\ gen = "running" /\ Len(read) < MaxLines
    /\ collect_begin /\ ~collecting
    /\ \E line \in Lines :
        /\ read' = Append(read, line)
        /\ ion_step' = IF force_regex_match(line) THEN IncStep(ion_step)
                                                  ELSE ion_step
        /\ IF HasDashes(line)
           THEN /\ collecting' = TRUE
                /\ coordinates' = NewList(heap)
                /\ forces' = NewList(Append(heap, <<>>))
                /\ heap' = heap \o << <<>>, <<>> >>
           ELSE UNCHANGED <<collecting, coordinates, forces, heap>>
    /\ UNCHANGED <<gen, handles, collect_begin, yielded>>
    /\ UNCHANGED <<osziVars, fmaxVars>>

\* A line read with collect_begin true and collecting false.
ScanHeaderSeen ==
    /\ gen = "running" /\ Len(read) < MaxLines
    /\ collect_begin /\ ~collecting
    /\ \E line \in Lines :
        /\ read' = Append(read, line)
        /\ IF HasDashes(line)
           THEN /\ collecting' = TRUE
                /\ coordinates' = NewList(heap)
                /\ forces' = NewList(Append(heap, <<>>))
                /\ heap' = heap \o << <<>>, <<>> >>
           ELSE UNCHANGED <<collecting, coordinates, forces, heap>>
    /\ UNCHANGED <<gen, handles, ion_step, collect_begin, yielded>>
    /\ UNCHANGED <<osziVars, fmaxVars>>

\* A separator read while collecting: the block is yielded.
CollectClose ==
    /\ gen = "running" /\ Len(read) < MaxLines
    /\ collect_begin /\ collecting
    /\ \E line \in Lines :
        /\ HasDashes(line)
        /\ read' = Append(read, line)
    /\ collecting' = FALSE
    /\ collect_begin' = FALSE
    /\ yielded' = Append(yielded, [step |-> ion_step,
                                   coordinates |-> coordinates,
                                   forces |-> forces])
    /\ gen' = "suspended"
    /\ UNCHANGED <<handles, ion_step, coordinates, forces, heap>>
    /\ UNCHANGED <<osziVars, fmaxVars>>

\* The rows put at the front of the lists instead of the end.
CollectDataPrepend ==
    /\ gen = "running" /\ Len(read) < MaxLines
    /\ collect_begin /\ collecting
    /\ \E line \in Lines :
        /\ ~HasDashes(line)
        /\ line2list(line).ok /\ Unpacks(line2list(line).list)
        /\ read' = Append(read, line)
        /\ LET l == line2list(line).list
           IN heap' = [heap EXCEPT
                         ![coordinates] = <<(<<l[1], l[2], l[3]>>)>> \o @,
                         ![forces] = <<(<<l[4], l[5], l[6]>>)>> \o @]
    /\ UNCHANGED <<gen, handles, ion_step, collect_begin, collecting,
                   coordinates, forces, yielded>>
    /\ UNCHANGED <<osziVars, fmaxVars>>

\* A line of six numbers read while collecting.
CollectData ==
    /\ gen = "running" /\ Len(read) < MaxLines
    /\ collect_begin /\ collecting
    /\ \E line \in Lines :
        /\ ~HasDashes(line)
        /\ line2list(line).ok /\ Unpacks(line2list(line).list)
        /\ read' = Append(read, line)
        /\ LET l == line2list(line).list
           IN heap' = [heap EXCEPT
                         ![coordinates] = Append(@, <<l[1], l[2], l[3]>>),
                         ![forces] = Append(@, <<l[4], l[5], l[6]>>)]
    /\ UNCHANGED <<gen, handles, ion_step, collect_begin, collecting,
                   coordinates, forces, yielded>>
    /\ UNCHANGED <<osziVars, fmaxVars>>

\* A malformed line skipped instead of raising.
CollectRaiseSkip ==
    /\ gen = "running" /\ Len(read) < MaxLines
    /\ collect_begin /\ collecting
    /\ \E line \in Lines :
        /\ ~HasDashes(line)
        /\ ~(line2list(line).ok /\ Unpacks(line2list(line).list))
        /\ read' = Append(read, line)
    /\ UNCHANGED <<gen, handles, ion_step, collect_begin, collecting,
                   coordinates, forces, heap, yielded>>
    /\ UNCHANGED <<osziVars, fmaxVars>>

\* Any other line read while collecting: ValueError leaves the generator
\* through the with block.
CollectRaise ==
    /\ gen = "running" /\ Len(read) < MaxLines
    /\ collect_begin /\ collecting
    /\ \E line \in Lines :
        /\ ~HasDashes(line)
        /\ ~(line2list(line).ok /\ Unpacks(line2list(line).list))
        /\ read' = Append(read, line)
    /\ gen' = "raised"
    /\ handles' = WithExit(handles)
    /\ UNCHANGED <<ion_step, collect_begin, collecting,
                   coordinates, forces, heap, yielded>>
    /\ UNCHANGED <<osziVars, fmaxVars>>

Next ==
    \/ Iter
    \/ Start
    \/ Resume
    \/ Abandon
    \/ GeneratorClose
    \/ Exhaust
    \/ ScanIdle
    \/ ScanHeaderSeen
    \/ CollectClose
    \/ CollectData
    \/ CollectRaise

Spec == Init /\ [][Next]_vars

\* The generator body runs on to its next yield, its end or its error once
\* next() is called; the consumer asks for the next block or stops; a
\* generator the consumer has dropped is closed.
Scan ==
    \/ Exhaust
    \/ ScanIdle
    \/ ScanHeaderSeen
    \/ CollectClose
    \/ CollectData
    \/ CollectRaise

FairSpec ==
    /\ Spec
    /\ WF_vars(Start)
    /\ WF_vars(Scan)
    /\ WF_vars(Resume \/ Abandon)
    /\ WF_vars(GeneratorClose)

-----------------------------------------------------------------------------
(* The block format and the three-state scanner as the design describes    *)
(* them, run over the lines read so far.                                   *)

IsHeaderLine(line) == line = HeaderLine
IsSeparatorLine(line) == line = SepLine
IsDataLine(line) == line \in {Data1, Data2}

RowCoords(line) == <<line[1].v, line[2].v, line[3].v>>
RowForces(line) == <<line[4].v, line[5].v, line[6].v>>

RefInit == [state |-> "Idle", step |-> 0, rows |-> <<>>, blocks |-> <<>>,
            after |-> 0]

RefStep(acc, line) ==
    IF acc.state = "Idle"
    THEN IF IsHeaderLine(line)
         THEN [acc EXCEPT !.state = "HeaderSeen", !.step = @ + 1]
         ELSE acc
    ELSE IF acc.state = "HeaderSeen"
    THEN IF IsSeparatorLine(line)
         THEN [acc EXCEPT !.state = "Collecting", !.rows = <<>>]
         ELSE acc
    ELSE IF acc.state = "Collecting"
    THEN IF IsSeparatorLine(line)
         THEN [acc EXCEPT !.state = "Idle",
                          !.blocks = Append(@, [step |-> acc.step,
                                                rows |-> acc.rows])]
         ELSE IF IsDataLine(line)
         THEN [acc EXCEPT !.rows = Append(@, line)]
         ELSE [acc EXCEPT !.state = "Failed"]
    ELSE [acc EXCEPT !.after = @ + 1]

RECURSIVE RefScan(_, _)
RefScan(s, n) == IF n = 0 THEN RefInit ELSE RefStep(RefScan(s, n - 1), s[n])

Ref == RefScan(read, Len(read))

\* A stream of well-formed blocks with lines that are no headers around them:
\* every header is followed at once by a separator, then data lines only, then
\* the closing separator.
RECURSIVE WellFormedFrom(_, _, _)
WellFormedFrom(s, i, inside) ==
    IF i > Len(s) THEN ~inside
    ELSE IF ~inside
    THEN IF IsHeaderLine(s[i])
         THEN /\ i + 1 <= Len(s)
              /\ IsSeparatorLine(s[i + 1])
              /\ WellFormedFrom(s, i + 2, TRUE)
         ELSE WellFormedFrom(s, i + 1, FALSE)
    ELSE IF IsSeparatorLine(s[i]) THEN WellFormedFrom(s, i + 1, FALSE)
    ELSE IsDataLine(s[i]) /\ WellFormedFrom(s, i + 1, TRUE)

WellFormed(s) == WellFormedFrom(s, 1, FALSE)

\* In a well-formed stream: the position of the i-th header, and the data
\* lines of the block it opens.
NumHeaders(s) == Cardinality({p \in 1..Len(s) : IsHeaderLine(s[p])})
NthHeader(s, i) ==
    CHOOSE p \in 1..Len(s) :
        /\ IsHeaderLine(s[p])
        /\ Cardinality({q \in 1..p : IsHeaderLine(s[q])}) = i
BlockLines(s, i) ==
    LET h == NthHeader(s, i)
        close == CHOOSE c \in (h + 2)..Len(s) :
                    /\ IsSeparatorLine(s[c])
                    /\ \A d \in (h + 2)..(c - 1) : ~IsSeparatorLine(s[d])
    IN [k \in 1..(close - h - 2) |-> s[h + 1 + k]]

\* What the consumer finds in the i-th record it was given.
CoordsOf(i) == heap[yielded[i].coordinates]
ForcesOf(i) == heap[yielded[i].forces]

\* The i-th record holds the data lines `lines`, in order.
Holds(i, lines) ==
    /\ Len(CoordsOf(i)) = Len(lines)
    /\ Len(ForcesOf(i)) = Len(lines)
    /\ \A j \in 1..Len(lines) :
        /\ CoordsOf(i)[j] = RowCoords(lines[j])
        /\ ForcesOf(i)[j] = RowForces(lines[j])

-----------------------------------------------------------------------------
(* Claims about OutCar.__iter__                                             *)

\* C1: over a stream of k well-formed blocks with non-header lines between
\* them a traversal raises nothing and, once the stream is exhausted, has
\* yielded exactly k records, in order, with step indices 1..k, the i-th one
\* holding exactly the data lines of the i-th block.
C1_BlocksInOrder ==
    WellFormed(read) =>
        /\ gen /= "raised"
        /\ gen = "exhausted" =>
            /\ Len(yielded) = NumHeaders(read)
            /\ \A i \in 1..Len(yielded) :
                /\ yielded[i].step = i
                /\ Holds(i, BlockLines(read, i))

C1_Witness ==
    /\ gen = "exhausted"
    /\ WellFormed(read)
    /\ Len(yielded) = 2
    /\ Len(CoordsOf(1)) + Len(CoordsOf(2)) = 1

\* C2: when the stream ends in HeaderSeen or Collecting the traversal ends
\* normally, no record is yielded for the open block, and the records of all
\* earlier complete blocks have been yielded.
C2_TruncatedBlockDiscarded ==
    LET ref == Ref
    IN
        ref.state \in {"HeaderSeen", "Collecting"} =>
            /\ gen /= "raised"
            /\ gen = "exhausted" =>
                /\ Len(yielded) = Len(ref.blocks)
                /\ \A i \in 1..Len(yielded) :
                    /\ yielded[i].step = ref.blocks[i].step
                    /\ yielded[i].step /= ref.step
                    /\ Holds(i, ref.blocks[i].rows)

C2_Witness ==
    LET ref == Ref
    IN
        /\ gen = "exhausted"
        /\ ref.state = "Collecting"
        /\ Len(ref.rows) = 1
        /\ Len(yielded) = 1

\* C3: a line read in Collecting that is neither a separator nor six numbers
\* makes the traversal fail with an error: nothing is read after it, no record
\* is yielded for the block being collected, and the records yielded are those
\* of the blocks closed before.
C3_MalformedLineAborts ==
    LET ref == Ref
    IN
        ref.state = "Failed" =>
            /\ gen = "raised"
            /\ ref.after = 0
            /\ Len(yielded) = Len(ref.blocks)
            /\ \A i \in 1..Len(yielded) :
                /\ yielded[i].step < ref.step
                /\ Holds(i, ref.blocks[i].rows)

C3_Witness ==
    LET ref == Ref
    IN
        /\ gen = "raised"
        /\ read[Len(read)] = ShortLine
        /\ Len(ref.rows) = 1
        /\ Len(yielded) = 1

\* C9: in every record yielded the coordinates and the forces have the same
\* length, the number of data lines between the block's separators, entry j
\* from the j-th data line; the lists of different records, and the two lists
\* of one record, are different objects, and a record keeps its content while
\* the scan goes on.
C9_RecordsFreshAndParallel ==
    LET ref == Ref
    IN
        /\ Len(yielded) <= Len(ref.blocks)
        /\ \A i \in 1..Len(yielded) :
            /\ Len(CoordsOf(i)) = Len(ForcesOf(i))
            /\ Holds(i, ref.blocks[i].rows)
            /\ yielded[i].coordinates /= yielded[i].forces
            /\ \A k \in 1..Len(yielded) :
                k /= i => /\ yielded[i].coordinates /= yielded[k].coordinates
                          /\ yielded[i].coordinates /= yielded[k].forces
                          /\ yielded[i].forces /= yielded[k].forces
        /\ collecting =>
            \A i \in 1..Len(yielded) :
                /\ coordinates \notin {yielded[i].coordinates, yielded[i].forces}
                /\ forces \notin {yielded[i].coordinates, yielded[i].forces}

C9_Witness ==
    /\ Len(yielded) = 1
    /\ Len(CoordsOf(1)) = 1
    /\ collecting
    /\ Len(heap[coordinates]) = 1
    /\ heap[coordinates] /= CoordsOf(1)

\* C8: a traversal holds exactly one open handle from its start to its end
\* and none before or after: the handle is released when the stream is
\* exhausted, when a malformed line raises, and when the abandoned generator
\* is closed, which always follows; a new traversal starts with nothing read,
\* in Idle, the step counter at 0, and opens a handle of its own.
HandleHeld ==
    IF gen \in {"running", "suspended", "abandoned"}
    THEN handles = 1
    ELSE handles = 0

FreshTraversal ==
    gen' = "created" =>
        /\ handles' = 0
        /\ read' = <<>> /\ yielded' = <<>>
        /\ ion_step' = 0 /\ ~collect_begin' /\ ~collecting'

OpensOwnHandle == (gen = "created" /\ gen' = "running") => handles' = 1

StepFrame ==
    ion_step' /= ion_step =>
        \/ gen' = "created" /\ ion_step' = 0
        \/ /\ gen = "running" /\ gen' = "running"
           /\ ~collect_begin /\ collect_begin'
           /\ Len(read') = Len(read) + 1
           /\ IsHeaderLine(read'[Len(read')])
           /\ ion_step' = ion_step + 1

StepCounts ==
    LET ref == Ref
    IN
        /\ ion_step = ref.step
        /\ \A i \in 1..Len(yielded) :
            /\ yielded[i].step = ref.blocks[i].step
            /\ yielded[i].step <= ion_step
            /\ \A k \in 1..(i - 1) : yielded[k].step < yielded[i].step
        /\ collect_begin =>
            \A i \in 1..Len(yielded) : yielded[i].step < ion_step

C10_StepCounterFrame == [][StepFrame]_vars /\ []StepCounts

C10_Witness ==
    /\ gen = "exhausted"
    /\ collect_begin /\ ~collecting
    /\ Len(yielded) = 1
    /\ ion_step = 2
    /\ \E p \in 1..Len(read) : p > 5 /\ IsHeaderLine(read[p])

-----------------------------------------------------------------------------
(* OsziCar: construction (load) and calls of esort                          *)

\* All files of at most n lines.
RECURSIVE FilesUpTo(_)
FilesUpTo(n) ==
    IF n = 0 THEN {<<>>}
    ELSE LET shorter == FilesUpTo(n - 1)
         IN shorter \cup {Append(f, l) : f \in shorter, l \in OsziLines}

InitOszi ==
    /\ read = <<>>
    /\ gen = "none"
    /\ handles = 0
    /\ ion_step = 0
    /\ collect_begin = FALSE
    /\ collecting = FALSE
    /\ coordinates = 0
    /\ forces = 0
    /\ heap = <<>>
    /\ yielded = <<>>
    /\ ofile \in FilesUpTo(MaxOsziLines)
    /\ attrs = ObjectMembers
    /\ loadState = "constructing"
    /\ esortCall = NoCall
    /\ atom_forces = <<>>
    /\ elemType = "list"
    /\ fmaxResult = NoResult

\* __init__ calls self.load().
Load ==
    /\ loadState = "constructing"
    /\ LET r == load(attrs, ofile)
       IN /\ attrs' = r.attrs
          /\ loadState' = IF r.err = "none" THEN "ok" ELSE r.err
    /\ UNCHANGED <<ofile, esortCall>>
    /\ UNCHANGED <<iterVars, fmaxVars>>

\* A call esort(var, n, reverse) with var a name of self.vars.  esort changes
\* nothing of the object, so one call from the loaded object shows all a call
\* can return.
Esort ==
    /\ loadState = "ok"
    /\ ~esortCall.called
    /\ \E i \in 1..Len(attrs["vars"].v), n \in (-1)..(MaxOsziLines + 1),
          reverse \in BOOLEAN :
        LET var == attrs["vars"].v[i]
            r == esort(attrs, var, n, reverse)
        IN esortCall' = [called |-> TRUE, var |-> var, n |-> n,
                         reverse |-> reverse, err |-> r.err,
                         result |-> r.result]
    /\ UNCHANGED <<ofile, attrs, loadState>>
    /\ UNCHANGED <<iterVars, fmaxVars>>

NextOszi ==
    \/ Load
    \/ Esort

SpecOszi == InitOszi /\ [][NextOszi]_vars

-----------------------------------------------------------------------------
(* OutCar.fmax                                                              *)

\* All sequences of at most n rows.
RECURSIVE RowsUpTo(_)
RowsUpTo(n) ==
    IF n = 0 THEN {<<>>}
    ELSE LET shorter == RowsUpTo(n - 1)
         IN shorter \cup {Append(f, v) : f \in shorter, v \in Vectors}

InitFmax ==
    /\ read = <<>>
    /\ gen = "none"
    /\ handles = 0
    /\ ion_step = 0
    /\ collect_begin = FALSE
    /\ collecting = FALSE
    /\ coordinates = 0
    /\ forces = 0
    /\ heap = <<>>
    /\ yielded = <<>>
    /\ ofile = <<>>
    /\ attrs = ObjectMembers
    /\ loadState = "constructing"
    /\ esortCall = NoCall
    /\ atom_forces \in RowsUpTo(MaxAtoms)
    /\ elemType \in {"list", "ndarray"}
    /\ fmaxResult = NoResult

\* A call OutCar.fmax(atom_forces).
Fmax ==
    /\ ~fmaxResult.called
    /\ LET r == fmax(atom_forces, elemType)
       IN fmaxResult' = [called |-> TRUE, err |-> r.err,
                         index |-> r.index, vector |-> r.vector]
    /\ UNCHANGED <<atom_forces, elemType>>
    /\ UNCHANGED <<iterVars, osziVars>>

NextFmax == Fmax

SpecFmax == InitFmax /\ [][NextFmax]_vars

-----------------------------------------------------------------------------
(* Claims about OsziCar                                                     *)

\* The matched lines of the file, in order.
MatchedLines == SelectSeq(ofile, LAMBDA l : match(l) /= <<>>)

FieldNames(line) == [i \in 1..Len(match(line)) |-> match(line)[i].name]

\* Every matched line carries the field names of the first matched line.
SameFields ==
    \A i \in 1..Len(MatchedLines) :
        FieldNames(MatchedLines[i]) = FieldNames(MatchedLines[1])

\* C4: on a file in which no line matches, load() completes without raising
\* and leaves an empty schema and an empty content.
C4_NoMatchLoadsEmpty ==
    (loadState /= "constructing" /\ MatchedLines = <<>>) =>
        /\ loadState = "ok"
        /\ hasattr(attrs, "vars") => attrs["vars"].v = <<>>
        /\ hasattr(attrs, "content")
        /\ attrs["content"].v = <<>>

\* C5: after load() on a file whose matched lines all carry the field names of
\* the first one, every field of the schema has an array with one value per
\* matched line, position i holding the value the i-th matched line gave for
\* the field, whatever the field names are.
C5_ParallelSeries ==
    (loadState /= "constructing" /\ MatchedLines /= <<>> /\ SameFields) =>
        /\ loadState = "ok"
        /\ hasattr(attrs, "vars")
        /\ attrs["vars"].t = "tuple"
        /\ attrs["vars"].v = FieldNames(MatchedLines[1])
        /\ \A k \in 1..Len(attrs["vars"].v) :
            LET field == attrs["vars"].v[k]
            IN /\ attrs[field].t = "array"
               /\ Len(attrs[field].v) = Len(MatchedLines)
               /\ \A i \in 1..Len(MatchedLines) :
                    \E j \in 1..Len(match(MatchedLines[i])) :
                        /\ match(MatchedLines[i])[j].name = field
                        /\ match(MatchedLines[i])[j].number = attrs[field].v[i]

\* The pairs esort sorts, and how often a pair occurs in a sequence.
Pairs == zip(attrs[esortCall.var].v, attrs["step"].v)
Count(s, x) == Cardinality({i \in 1..Len(s) : s[i] = x})

Ascending(s) == \A i \in 1..(Len(s) - 1) : s[i][1] <= s[i + 1][1]

\* r is taken from the pairs, and no pair left out has a smaller (largest:
\* a larger) value than a pair taken.
Extreme(r, largest) ==
    /\ \A i \in 1..Len(r) : Count(r, r[i]) <= Count(Pairs, r[i])
    /\ \A i \in 1..Len(r), j \in 1..Len(Pairs) :
        Count(r, Pairs[j]) < Count(Pairs, Pairs[j]) =>
            IF largest THEN Pairs[j][1] <= r[i][1] ELSE r[i][1] <= Pairs[j][1]

-----------------------------------------------------------------------------
(* Claims about OutCar.fmax                                                 *)

SquaredMagnitude(x) == x[1] * x[1] + x[2] * x[2] + x[3] * x[3]

\* C7: for a sequence of one or more force vectors fmax returns the lowest
\* index (from 0) of a vector of maximal squared magnitude, and that vector.
C7_MaxSquaredMagnitude ==
    (fmaxResult.called /\ Len(atom_forces) >= 1) =>
        /\ fmaxResult.err = "none"
        /\ fmaxResult.index \in 0..(Len(atom_forces) - 1)
        /\ fmaxResult.vector = atom_forces[fmaxResult.index + 1]
        /\ \A j \in 1..Len(atom_forces) :
            SquaredMagnitude(atom_forces[j]) <= SquaredMagnitude(fmaxResult.vector)
        /\ \A j \in 1..fmaxResult.index :
            SquaredMagnitude(atom_forces[j]) < SquaredMagnitude(fmaxResult.vector)

====
